---- MODULE Spec2Model ----
(***************************************************************************)
(* Model of showoci_csv2adw.py: the loader that reads the showoci CSV      *)
(* reports and loads them into an Oracle database, one staging (temporary) *)
(* table and one main table per report.                                    *)
(*                                                                         *)
(* The program is sequential.  One behaviour of the model is a series of   *)
(* invocations of main_process() against the same database; the files each *)
(* invocation finds on disk are fixed by the initial state (plan).         *)
(***************************************************************************)
EXTENDS Integers, Sequences, FiniteSets, Bags, TLC

\* Number of invocations of the program in one behaviour.
MaxRuns == 2
\* The large CSV files have up to MaxBatches full batches (plus or minus one row).
MaxBatches == 2

\* handle_table: batch_size = 5000
batch_size == 5000

Min(a, b) == IF a < b THEN a ELSE b

Range(s) == {s[i] : i \in 1..Len(s)}

(***************************************************************************)
(* Python string operations used by the program.                           *)
(***************************************************************************)
\* s[lo:hi] for 0 <= lo <= hi
PySlice(s, lo, hi) == SubSeq(s, lo + 1, Min(hi, Len(s)))

RECURSIVE rstrip(_)
rstrip(s) ==
    IF Len(s) > 0 /\ SubSeq(s, Len(s), Len(s)) = " "
    THEN rstrip(SubSeq(s, 1, Len(s) - 1))
    ELSE s

RECURSIVE lstrip(_)
lstrip(s) ==
    IF Len(s) > 0 /\ SubSeq(s, 1, 1) = " "
    THEN lstrip(SubSeq(s, 2, Len(s)))
    ELSE s

\* str.strip()
strip(s) == lstrip(rstrip(s))

StartsWith(s, p) == Len(s) >= Len(p) /\ SubSeq(s, 1, Len(p)) = p

\* n copies of the string s
RECURSIVE Rep(_, _)
Rep(s, n) ==
    IF n = 0 THEN ""
    ELSE IF n % 2 = 1 THEN s \o Rep(s, n - 1)
    ELSE LET h == Rep(s, n \div 2) IN h \o h

(***************************************************************************)
(* The two descriptors, as written in handle_compute and                   *)
(* handle_block_volume.                                                    *)
(***************************************************************************)
compute_json ==
    [table_name |-> "OCI_SHOWOCI_COMPUTE",
     csv_file |-> "compute.csv",
     items |-> <<
        [col |-> "tenant_name           ", csv |-> "tenant_name           ", type |-> "varchar2(1000)", pk |-> "n", fn |-> ":1  "],
        [col |-> "tenant_id             ", csv |-> "tenant_id             ", type |-> "varchar2(100) ", pk |-> "n", fn |-> ":2  "],
        [col |-> "instance_id           ", csv |-> "instance_id           ", type |-> "varchar2(1000)", pk |-> "y", fn |-> ":3  "],
        [col |-> "region_name           ", csv |-> "region_name           ", type |-> "varchar2(100) ", pk |-> "n", fn |-> ":4  "],
        [col |-> "availability_domain   ", csv |-> "availability_domain   ", type |-> "varchar2(100) ", pk |-> "n", fn |-> ":5  "],
        [col |-> "fault_domain          ", csv |-> "fault_domain          ", type |-> "varchar2(100) ", pk |-> "n", fn |-> ":6  "],
        [col |-> "compartment_path      ", csv |-> "compartment_path      ", type |-> "varchar2(2000)", pk |-> "n", fn |-> ":7  "],
        [col |-> "compartment_name      ", csv |-> "compartment_name      ", type |-> "varchar2(1000)", pk |-> "n", fn |-> ":8  "],
        [col |-> "server_name           ", csv |-> "server_name           ", type |-> "varchar2(1000)", pk |-> "n", fn |-> ":9  "],
        [col |-> "status                ", csv |-> "status                ", type |-> "varchar2(100) ", pk |-> "n", fn |-> ":10 "],
        [col |-> "type                  ", csv |-> "type                  ", type |-> "varchar2(1000)", pk |-> "n", fn |-> ":11 "],
        [col |-> "image                 ", csv |-> "image                 ", type |-> "varchar2(1000)", pk |-> "n", fn |-> ":12 "],
        [col |-> "primary_vcn           ", csv |-> "primary_vcn           ", type |-> "varchar2(100) ", pk |-> "n", fn |-> ":13 "],
        [col |-> "primary_subnet        ", csv |-> "primary_subnet        ", type |-> "varchar2(100) ", pk |-> "n", fn |-> ":14 "],
        [col |-> "shape                 ", csv |-> "shape                 ", type |-> "varchar2(100) ", pk |-> "n", fn |-> ":15 "],
        [col |-> "ocpus                 ", csv |-> "ocpus                 ", type |-> "number        ", pk |-> "n", fn |-> "to_number(:16)"],
        [col |-> "memory_gb             ", csv |-> "memory_gb             ", type |-> "number        ", pk |-> "n", fn |-> "to_number(:17)"],
        [col |-> "local_storage_tb      ", csv |-> "local_storage_tb      ", type |-> "number        ", pk |-> "n", fn |-> "to_number(:18)"],
        [col |-> "public_ips            ", csv |-> "public_ips            ", type |-> "varchar2(500) ", pk |-> "n", fn |-> ":19 "],
        [col |-> "private_ips           ", csv |-> "private_ips           ", type |-> "varchar2(500) ", pk |-> "n", fn |-> ":20 "],
        [col |-> "security_groups       ", csv |-> "security_groups       ", type |-> "varchar2(1000)", pk |-> "n", fn |-> ":21 "],
        [col |-> "internal_fqdn         ", csv |-> "internal_fqdn         ", type |-> "varchar2(1000)", pk |-> "n", fn |-> ":22 "],
        [col |-> "time_created          ", csv |-> "time_created          ", type |-> "date          ", pk |-> "n", fn |-> "to_date(:23,'YYYY-MM-DD HH24:MI')"],
        [col |-> "boot_volume           ", csv |-> "boot_volume           ", type |-> "varchar2(100) ", pk |-> "n", fn |-> ":24 "],
        [col |-> "boot_volume_size_gb   ", csv |-> "boot_volume_size_gb   ", type |-> "number        ", pk |-> "n", fn |-> "to_number(:25)"],
        [col |-> "boot_volume_b_policy  ", csv |-> "boot_volume_b_policy  ", type |-> "varchar2(1000)", pk |-> "n", fn |-> ":26 "],
        [col |-> "boot_volume_encryption", csv |-> "boot_volume_encryption", type |-> "varchar2(20)  ", pk |-> "n", fn |-> ":27 "],
        [col |-> "block_volumes         ", csv |-> "block_volumes         ", type |-> "varchar2(1000)", pk |-> "n", fn |-> ":28 "],
        [col |-> "block_volumes_total_gb", csv |-> "block_volumes_total_gb", type |-> "number        ", pk |-> "n", fn |-> "to_number(:29)"],
        [col |-> "block_volumes_b_policy", csv |-> "block_volumes_b_policy", type |-> "varchar2(1000)", pk |-> "n", fn |-> ":30 "],
        [col |-> "defined_tags          ", csv |-> "defined_tags          ", type |-> "varchar2(4000)", pk |-> "n", fn |-> ":31 "],
        [col |-> "freeform_tags         ", csv |-> "freeform_tags         ", type |-> "varchar2(4000)", pk |-> "n", fn |-> ":32 "],
        [col |-> "extract_date          ", csv |-> "extract_date          ", type |-> "date          ", pk |-> "n", fn |-> "to_date(:33,'YYYY-MM-DD HH24:MI:SS')"]
     >>]

block_volume_json ==
    [table_name |-> "OCI_SHOWOCI_BLOCK_VOLUMES",
     csv_file |-> "block_volumes.csv",
     items |-> <<
        [col |-> "tenant_name        ", csv |-> "tenant_name        ", type |-> "varchar2(1000)", pk |-> "n", fn |-> ":1  "],
        [col |-> "tenant_id          ", csv |-> "tenant_id          ", type |-> "varchar2(100) ", pk |-> "n", fn |-> ":2  "],
        [col |-> "id                 ", csv |-> "id                 ", type |-> "varchar2(1000)", pk |-> "y", fn |-> ":3  "],
        [col |-> "region_name        ", csv |-> "region_name        ", type |-> "varchar2(100) ", pk |-> "n", fn |-> ":4  "],
        [col |-> "availability_domain", csv |-> "availability_domain", type |-> "varchar2(100) ", pk |-> "n", fn |-> ":5  "],
        [col |-> "fault_domain       ", csv |-> "fault_domain       ", type |-> "varchar2(100) ", pk |-> "n", fn |-> ":6  "],
        [col |-> "compartment_path   ", csv |-> "compartment_path   ", type |-> "varchar2(2000)", pk |-> "n", fn |-> ":7  "],
        [col |-> "compartment_name   ", csv |-> "compartment_name   ", type |-> "varchar2(1000)", pk |-> "n", fn |-> ":8  "],
        [col |-> "display_name       ", csv |-> "display_name       ", type |-> "varchar2(1000)", pk |-> "n", fn |-> ":9  "],
        [col |-> "size_gb            ", csv |-> "size               ", type |-> "number        ", pk |-> "n", fn |-> "to_number(:10)"],
        [col |-> "backup_policy      ", csv |-> "backup_policy      ", type |-> "varchar2(100) ", pk |-> "n", fn |-> ":11 "],
        [col |-> "vpus_per_gb        ", csv |-> "vpus_per_gb        ", type |-> "number        ", pk |-> "n", fn |-> "to_number(:12)"],
        [col |-> "volume_group_name  ", csv |-> "volume_group_name  ", type |-> "varchar2(1000)", pk |-> "n", fn |-> ":13 "],
        [col |-> "instance_name      ", csv |-> "instance_name      ", type |-> "varchar2(100) ", pk |-> "n", fn |-> ":14 "],
        [col |-> "instance_id        ", csv |-> "instance_id        ", type |-> "varchar2(100) ", pk |-> "n", fn |-> ":15 "],
        [col |-> "defined_tags       ", csv |-> "defined_tags       ", type |-> "varchar2(4000)", pk |-> "n", fn |-> ":16 "],
        [col |-> "freeform_tags      ", csv |-> "freeform_tags      ", type |-> "varchar2(4000)", pk |-> "n", fn |-> ":17 "],
        [col |-> "extract_date       ", csv |-> "extract_date       ", type |-> "date          ", pk |-> "n", fn |-> "to_date(:18,'YYYY-MM-DD HH24:MI:SS')"]
     >>]

\* The descriptors in the order main_process handles them.
Descriptors == <<compute_json, block_volume_json>>

\* A descriptor cut down to its first item, its key and its last item.
Cut(inputdata) ==
    LET n    == Len(inputdata.items)
        keep == {i \in 1..n : i = 1 \/ i = n \/ inputdata.items[i].pk = "y"}
    IN  [inputdata EXCEPT !.items =
            [k \in 1..Cardinality(keep) |->
                inputdata.items[CHOOSE i \in keep : Cardinality({j \in keep : j < i}) = k - 1]]]

\* A descriptor with no item marked as the primary key.
NoKey(inputdata) ==
    [inputdata EXCEPT !.items =
        [k \in 1..Len(inputdata.items) |-> [inputdata.items[k] EXCEPT !.pk = "n"]]]

\* The descriptors handle_table is given: those of the program, the same
\* ones cut down (the large files are loaded with these), or those of the
\* program with the key mark taken from one of them.
DescriptorLists ==
    [full |-> Descriptors,
     cut  |-> [i \in 1..Len(Descriptors) |-> Cut(Descriptors[i])],
     nokey_compute      |-> <<NoKey(compute_json), block_volume_json>>,
     nokey_block_volume |-> <<compute_json, NoKey(block_volume_json)>>]

(***************************************************************************)
(* handle_table: the values derived from the descriptor.                   *)
(***************************************************************************)
\* cmd.csvlocation
csv_location == "/tmp/showoci"

path_filename(inputdata) == csv_location \o "_" \o inputdata.csv_file

tmp_table_name(inputdata) == inputdata.table_name \o "_TMP"

\* (variant: with no item marked, the first item is taken as the key)
primary_key_first(inputdata) ==
    LET ys == {i \in 1..Len(inputdata.items) : inputdata.items[i].pk = "y"}
    IN  IF ys = {} THEN 1 ELSE CHOOSE i \in ys : \A j \in ys : i <= j

\* primary_key: position of the first item with pk = "y", 0 when next() gives None
primary_key(inputdata) ==
    LET ys == {i \in 1..Len(inputdata.items) : inputdata.items[i].pk = "y"}
    IN  IF ys = {} THEN 0 ELSE CHOOSE i \in ys : \A j \in ys : i <= j

\* merge_sql_columns: the positions the merge updates
merge_sql_columns(inputdata) ==
    {i \in 1..Len(inputdata.items) : inputdata.items[i].pk # "y"}

\* column = str(item['csv']).strip(), for every item
csv_columns(inputdata) ==
    [i \in 1..Len(inputdata.items) |-> strip(inputdata.items[i].csv)]

(***************************************************************************)
(* csv.DictReader.  The reader maps every name of the header to the field  *)
(* at its position in the line, and to None when the line is too short.    *)
(***************************************************************************)
None == <<>>

DictRow(hdr, raw) ==
    [h \in Range(hdr) |->
        LET j == CHOOSE j \in 1..Len(hdr) :
                    hdr[j] = h /\ \A k \in 1..Len(hdr) : hdr[k] = h => k <= j
        IN  IF j <= Len(raw) THEN <<raw[j]>> ELSE None]

(***************************************************************************)
(* get_column_value_from_array                                             *)
(***************************************************************************)
\* (variant: array[column] without the test "column in array" raises KeyError)
get_column_value_keyerror(column, array) ==
    column \notin DOMAIN array \/ array[column] = None

\* array[column] is None: the slice raises TypeError
get_column_value_raises(column, array) ==
    column \in DOMAIN array /\ array[column] = None

get_column_value_from_array(column, array) ==
    IF column \in DOMAIN array
    THEN PySlice(array[column][1], 0, 3999)
    ELSE ""

\* rowarray: one value per item, in the order of the items
RowArray(inputdata, row) ==
    [i \in 1..Len(inputdata.items) |->
        get_column_value_from_array(strip(inputdata.items[i].csv), row)]

RowRaises(inputdata, row) ==
    \E i \in 1..Len(inputdata.items) :
        get_column_value_raises(strip(inputdata.items[i].csv), row)

(***************************************************************************)
(* The database.  A stored value is NULL or <<v>>.  The insert statement   *)
(* binds every string of the row through the item's fn: a placeholder,     *)
(* to_number(), or to_date() with a format.  Oracle stores '' as NULL.     *)
(***************************************************************************)
NULL == <<>>

DigitValue ==
    [c \in {"0", "1", "2", "3", "4", "5", "6", "7", "8", "9"} |->
        CASE c = "0" -> 0 [] c = "1" -> 1 [] c = "2" -> 2 [] c = "3" -> 3
          [] c = "4" -> 4 [] c = "5" -> 5 [] c = "6" -> 6 [] c = "7" -> 7
          [] c = "8" -> 8 [] c = "9" -> 9]

IsDigits(s) ==
    Len(s) > 0 /\ \A i \in 1..Len(s) : SubSeq(s, i, i) \in DOMAIN DigitValue

RECURSIVE ParseNat(_)
ParseNat(s) ==
    IF Len(s) = 0 THEN 0
    ELSE 10 * ParseNat(SubSeq(s, 1, Len(s) - 1)) + DigitValue[SubSeq(s, Len(s), Len(s))]

\* 'varchar2(1000)' -> 1000
VarcharSize(type) ==
    LET t == strip(type) IN ParseNat(SubSeq(t, Len("varchar2(") + 1, Len(t) - 1))

BindKind(item) ==
    IF StartsWith(item.fn, "to_number(") THEN "number"
    ELSE IF StartsWith(item.fn, "to_date(") THEN "date"
    ELSE "text"

\* 'YYYY-MM-DD HH24:MI' or 'YYYY-MM-DD HH24:MI:SS'
IsTimestamp(v, seconds) ==
    LET len  == IF seconds THEN 19 ELSE 16
        seps == IF seconds THEN {5, 8, 11, 14, 17} ELSE {5, 8, 11, 14}
    IN  /\ Len(v) = len
        /\ \A i \in 1..len :
              LET c == SubSeq(v, i, i)
              IN  IF i \in {5, 8} THEN c = "-"
                  ELSE IF i = 11 THEN c = " "
                  ELSE IF i \in seps THEN c = ":"
                  ELSE c \in DOMAIN DigitValue

HasSeconds(item) ==
    LET f == strip(item.fn) IN SubSeq(f, Len(f) - 4, Len(f)) = ":SS')"

\* ORA-01722, ORA-018xx, ORA-12899: the statement fails on this value
BindFails(item, v) ==
    IF v = "" THEN FALSE
    ELSE CASE BindKind(item) = "number" -> ~IsDigits(v)
           [] BindKind(item) = "date"   -> ~IsTimestamp(v, HasSeconds(item))
           [] OTHER                       -> Len(v) > VarcharSize(item.type)

BindValue(item, v) ==
    IF v = "" THEN NULL
    ELSE IF BindKind(item) = "number" THEN <<ParseNat(v)>>
    ELSE <<v>>

BindRow(inputdata, rowarray) ==
    [i \in 1..Len(inputdata.items) |-> BindValue(inputdata.items[i], rowarray[i])]

BindRowFails(inputdata, rowarray) ==
    \E i \in 1..Len(inputdata.items) : BindFails(inputdata.items[i], rowarray[i])

(***************************************************************************)
(* The statements the program sends over the connection, as functions of   *)
(* the database state db:                                                  *)
(*   user_tables  the tables of the schema                                 *)
(*   temporary    those created as GLOBAL TEMPORARY ... PRESERVE ROWS      *)
(*   session      the rows the connection sees (a bag per table)           *)
(*   committed    the rows that survive a rollback                         *)
(***************************************************************************)
AllTables ==
    UNION {{Descriptors[i].table_name, tmp_table_name(Descriptors[i])} :
                i \in 1..Len(Descriptors)}

\* the rows of a batch as the database stores them
RECURSIVE BindRows(_, _)
BindRows(inputdata, rows) ==
    IF DOMAIN rows = {} THEN EmptyBag
    ELSE LET r == CHOOSE q \in DOMAIN rows : TRUE
         IN  [x \in {BindRow(inputdata, r)} |-> rows[r]]
                (+) BindRows(inputdata, [q \in DOMAIN rows \ {r} |-> rows[q]])

\* (variant: the lookup finds every table)
count_user_tables_found(db, name) == 1

\* select count(*) from user_tables where table_name = :table_name
count_user_tables(db, name) == IF name \in db.user_tables THEN 1 ELSE 0

\* create table ...: DDL commits the transaction
create_table(db, name, temp) ==
    [db EXCEPT !.user_tables = @ \cup {name},
               !.temporary = IF temp THEN @ \cup {name} ELSE @,
               !.committed = db.session]

\* (variant: a connection with autocommit, every bulk insert is committed)
executemany_autocommit(db, inputdata, rows) ==
    LET new == db.session[tmp_table_name(inputdata)]
                 (+) BindRows(inputdata, rows)
    IN  [db EXCEPT !.session[tmp_table_name(inputdata)] = new,
                   !.committed = [db.session EXCEPT ![tmp_table_name(inputdata)] = new]]

\* cursor.executemany(sql, data) on the insert statement
executemany(db, inputdata, rows) ==
    [db EXCEPT !.session[tmp_table_name(inputdata)] =
                    @ (+) BindRows(inputdata, rows)]

executemany_fails(inputdata, rows) ==
    \E r \in BagToSet(rows) : BindRowFails(inputdata, r)

\* connection.commit()
commit(db) == [db EXCEPT !.committed = db.session]

\* (variant: an ordinary table keeps its committed rows)
RowsKept(rows) == rows

\* what a temporary table holds once its session has ended
RowsAfterSession(rows) == EmptyBag

\* leaving "with oracledb.connect(...) as connection": the connection is
\* closed, which rolls back the open transaction and ends the session
close(db) ==
    [db EXCEPT !.session = [t \in AllTables |->
                    IF t \in db.temporary THEN RowsAfterSession(db.committed[t])
                    ELSE db.committed[t]],
               !.committed = [t \in AllTables |->
                    IF t \in db.temporary THEN RowsAfterSession(db.committed[t])
                    ELSE db.committed[t]]]

\* merge into table a using tmp b on (a.pk = b.pk)
\*   when matched then update set <merge_sql_columns>
\*   when not matched then insert (...) values (...)
SamePk(a, b, pk) == a[pk] # NULL /\ a[pk] = b[pk]

\* (variant: a matched row is left as it is)
MergedRow_unchanged(a, b, cols) == a

MergedRow(a, b, cols) == [i \in 1..Len(a) |-> IF i \in cols THEN b[i] ELSE a[i]]

MergeRows(T, S, pk, cols) ==
    {a \in T : \A b \in S : ~SamePk(a, b, pk)}
      \cup {MergedRow(a, b, cols) : <<a, b>> \in {p \in T \X S : SamePk(p[1], p[2], pk)}}
      \cup {b \in S : \A a \in T : ~SamePk(a, b, pk)}

\* ORA-01400 (NULL key), ORA-00001 and ORA-30926 (two staging rows with one key)
merge_fails(db, inputdata) ==
    LET S  == db.session[tmp_table_name(inputdata)]
        pk == primary_key(inputdata)
    IN  \E r \in BagToSet(S) :
            \/ r[pk] = NULL
            \/ S[r] > 1
            \/ \E q \in BagToSet(S) : q # r /\ q[pk] = r[pk]

merge(db, inputdata) ==
    LET S == BagToSet(db.session[tmp_table_name(inputdata)])
        T == BagToSet(db.session[inputdata.table_name])
    IN  [db EXCEPT !.session[inputdata.table_name] =
            SetToBag(MergeRows(T, S, primary_key(inputdata), merge_sql_columns(inputdata)))]

(***************************************************************************)
(* The CSV files the program may find.  A row kind gives the key, a text   *)
(* value, a number, a tags value and how many trailing fields the line     *)
(* lacks; the fields of a line follow the header of the file.              *)
(***************************************************************************)
Kind(pk, txt, num, tags, short) ==
    [pk |-> pk, txt |-> txt, num |-> num, tags |-> tags, short |-> short]

ItemOf(inputdata, h) ==
    inputdata.items[CHOOSE i \in 1..Len(inputdata.items) : strip(inputdata.items[i].csv) = h]

FieldOf(item, kind) ==
    IF item.pk = "y" THEN kind.pk
    ELSE IF BindKind(item) = "number" THEN kind.num
    ELSE IF BindKind(item) = "date"
         THEN (IF HasSeconds(item) THEN "2023-02-14 10:30:00" ELSE "2023-02-14 10:30")
    ELSE IF VarcharSize(item.type) = 4000 THEN kind.tags
    ELSE kind.txt

Line(inputdata, hdr, kind) ==
    [j \in 1..(Len(hdr) - kind.short) |-> FieldOf(ItemOf(inputdata, hdr[j]), kind)]

\* the header and the lines of a file: the header lacks the names in omit,
\* the lines are of the given kinds in turn
Contents(inputdata, omit, kinds) ==
    LET hdr == SelectSeq(csv_columns(inputdata), LAMBDA h : h \notin omit)
    IN  [hdr |-> hdr,
         pat |-> [k \in 1..Len(kinds) |-> Line(inputdata, hdr, kinds[k])]]

RowA == Kind("ocid1", "a", "1", "t", 0)
RowB == Kind("ocid1", "b", "2", "u", 0)
RowC == Kind("ocid2", "a", "1", "t", 0)

RowT == Kind("ocid1", "a", "1", Rep("x", 4000), 0)
RowU == Kind("ocid2", "a", "1", Rep("x", 4001), 0)

Shapes ==
    {"A", "B", "AC", "AB", "no_freeform_tags", "short_line", "long_tags", "bad_number"}

Shape(inputdata, s) ==
    CASE s = "A"  -> Contents(inputdata, {}, <<RowA>>)
      [] s = "B"  -> Contents(inputdata, {}, <<RowB>>)
      [] s = "AC" -> Contents(inputdata, {}, <<RowA, RowC>>)
      [] s = "AB" -> Contents(inputdata, {}, <<RowA, RowB>>)
      [] s = "no_freeform_tags" -> Contents(inputdata, {"freeform_tags"}, <<RowA>>)
      [] s = "short_line" -> Contents(inputdata, {}, <<Kind("ocid1", "a", "1", "t", 1)>>)
      [] s = "long_tags"  -> Contents(inputdata, {}, <<RowT, RowU>>)
      [] s = "bad_number" -> Contents(inputdata, {}, <<Kind("ocid1", "a", "x", "t", 0)>>)

\* the contents of the files, per descriptor and shape
Catalogue ==
    [i \in 1..Len(Descriptors) |-> [s \in Shapes |-> Shape(Descriptors[i], s)]]

\* a file on disk: its shape and its number of data rows
File(s, n) == [shape |-> s, n |-> n]

SmallFiles ==
    {File("A", 1), File("B", 1), File("AC", 2), File("AB", 2),
     File("no_freeform_tags", 1), File("short_line", 1), File("long_tags", 2),
     File("bad_number", 1)}

\* The sizes of the large files, around the batch size and around
\* MaxBatches batches; the descriptors share them out.
LargeSizes(i) ==
    IF i = 1 THEN {batch_size - 1, batch_size, MaxBatches * batch_size + 1}
    ELSE {0, batch_size + 1, MaxBatches * batch_size}

LargeFiles(i) == {File("AC", n) : n \in LargeSizes(i)}

\* The files on disk at one invocation: a function from the paths that exist.
\* f and g are <<>> (no such file) or <<file>>.
Disk(i, f, j, g) ==
    LET p == path_filename(Descriptors[i])
        q == path_filename(Descriptors[j])
    IN  [x \in (IF f = <<>> THEN {} ELSE {p}) \cup (IF g = <<>> THEN {} ELSE {q}) |->
            IF x = p THEN f[1] ELSE g[1]]

Opt(S) == {<<>>} \cup {<<x>> : x \in S}

\* compute.csv is any small file, or absent, at every invocation and there
\* is no block_volumes.csv; or there is no compute.csv and block_volumes.csv
\* is a one-row file or absent; or both are one-row files.
SmallPlans ==
    {[r \in 1..MaxRuns |-> Disk(1, f[r], 2, <<>>)] :
        f \in [1..MaxRuns -> Opt(SmallFiles)]}
      \cup
    {[r \in 1..MaxRuns |-> Disk(2, f[r], 1, <<>>)] :
        f \in [1..MaxRuns -> Opt({File("A", 1), File("B", 1)})]}
      \cup
    {[r \in 1..MaxRuns |-> Disk(1, <<f[r]>>, 2, <<File("A", 1)>>)] :
        f \in [1..MaxRuns -> {File("A", 1), File("B", 1)}]}

\* One descriptor gets a large file at the first invocation and a one-row
\* file afterwards; the other has no file.
LargePlans ==
    UNION {{[r \in 1..MaxRuns |->
                Disk(i, IF r = 1 THEN <<f>> ELSE <<File("A", 1)>>, 3 - i, <<>>)] :
                f \in LargeFiles(i)} : i \in 1..2}

\* Every combination of a one-row compute.csv and a one-row
\* block_volumes.csv, each present or absent, at every invocation.
NoKeyPlans ==
    {[r \in 1..MaxRuns |-> Disk(1, f[r], 2, g[r])] :
        f \in [1..MaxRuns -> Opt({File("A", 1)})],
        g \in [1..MaxRuns -> Opt({File("A", 1)})]}

(***************************************************************************)
(* State.                                                                  *)
(***************************************************************************)
VARIABLES
    descriptors,       \* the descriptors in use: a name in DescriptorLists
    plan,              \* plan[r]: the files on disk at invocation r
    run,               \* the current invocation
    pc,                \* where the program is
    cur,               \* the descriptor being handled (index in Descriptors)
    process_location,  \* handle_table's process_location
    exc,               \* the exception being raised, "" when none
    db,                \* the database
    csv_pos,           \* data rows the reader has returned
    row,               \* the row the reader returned last
    rowarray,          \* the tuple built from it
    data,              \* the batch: the row tuples appended since the last
                       \* bulk insert, as a bag (the rows go into a table,
                       \* which keeps no order)
    num_rows,          \* handle_table's num_rows
    calls,             \* statements executed on the connection: <<what, table, rows>>
    isfile_calls,      \* the paths given to os.path.isfile
    stdout,            \* lines printed: <<what, where, number>>
    loads              \* per completed handle_table: the table sizes it left

vars == <<descriptors, plan, run, pc, cur, process_location, exc, db, csv_pos, row, rowarray,
          data, num_rows, calls, isfile_calls, stdout, loads>>

locals == <<csv_pos, row, rowarray, data, num_rows>>

InitDb ==
    [user_tables |-> {},
     temporary   |-> {},
     session     |-> [t \in AllTables |-> EmptyBag],
     committed   |-> [t \in AllTables |-> EmptyBag]]

InitState ==
    /\ run = 1
    /\ pc = "main"
    /\ cur = 0
    /\ process_location = ""
    /\ exc = ""
    /\ db = InitDb
    /\ csv_pos = 0
    /\ row = <<>>
    /\ rowarray = <<>>
    /\ data = EmptyBag
    /\ num_rows = 0
    /\ calls = <<>>
    /\ isfile_calls = <<>>
    /\ stdout = <<>>
    /\ loads = <<>>

Init == descriptors = "full" /\ plan \in SmallPlans /\ InitState

InitBatch == descriptors = "cut" /\ plan \in LargePlans /\ InitState

InitNoKey ==
    /\ descriptors \in {"full", "nokey_compute", "nokey_block_volume"}
    /\ plan \in NoKeyPlans
    /\ InitState

inputdata == DescriptorLists[descriptors][cur]

fs == plan[run]

file == fs[path_filename(inputdata)]

\* the csv.DictReader on the open file: its fieldnames and its next line
fieldnames == Catalogue[cur][file.shape].hdr

NextLine ==
    LET pat == Catalogue[cur][file.shape].pat
    IN  pat[(csv_pos % Len(pat)) + 1]

Call(what, table, n, ok) == <<what, table, n, ok>>

Out(what, where, n) == <<what, where, n>>

\* an exception raised inside handle_table's try block
Raise(e) == exc' = e /\ pc' = "except_handle_table"

\* a statement that raises oracledb.DatabaseError
Fails(what, table) ==
    /\ Raise("DatabaseError")
    /\ calls' = Append(calls, Call(what, table, 0, FALSE))

\* the local variables of handle_table are gone when it is left
ResetLocals ==
    /\ csv_pos' = 0
    /\ row' = <<>>
    /\ rowarray' = <<>>
    /\ data' = EmptyBag
    /\ num_rows' = 0

\* handle_table returned: handle_compute is followed by handle_block_volume,
\* which is followed by the end of the with block
Return ==
    /\ IF cur < Len(Descriptors)
       THEN cur' = cur + 1 /\ pc' = "handle_start"
       ELSE cur' = cur /\ pc' = "close"
    /\ ResetLocals

(***************************************************************************)
(* main_process: oracledb.connect(...)                                     *)
(***************************************************************************)
Connect ==
    /\ pc = "main"
    /\ \/ /\ pc' = "handle_start"
          /\ cur' = 1
          /\ exc' = exc
       \/ /\ pc' = "except_main"
          /\ exc' = "DatabaseError"
          /\ cur' = cur
    /\ UNCHANGED <<descriptors, plan, isfile_calls, run, process_location, db, locals, calls, stdout, loads>>

(***************************************************************************)
(* handle_table: from the start to the file check                          *)
(***************************************************************************)
\* (variant: the file check always succeeds)
os_path_isfile_always(disk, path) == TRUE

os_path_isfile(disk, path) == path \in DOMAIN disk

HandleTableStart ==
    /\ pc = "handle_start"
    /\ process_location' = "Start"
    /\ IF primary_key(inputdata) = 0
       THEN /\ Raise("Exception")
            /\ UNCHANGED <<cur, stdout, locals, isfile_calls>>
       ELSE /\ isfile_calls' = Append(isfile_calls, path_filename(inputdata))
            /\ IF ~os_path_isfile(fs, path_filename(inputdata))
               THEN /\ stdout' = Append(stdout, Out("skipping", inputdata.csv_file, 0))
                    /\ Return
                    /\ exc' = exc
               ELSE /\ pc' = "check_main"
                    /\ UNCHANGED <<cur, exc, stdout, locals>>
    /\ UNCHANGED <<descriptors, plan, run, db, calls, loads>>

(***************************************************************************)
(* handle_table: check the table structure and create it if it is absent   *)
(***************************************************************************)
CheckTable(here, name, absent, present) ==
    /\ pc = here
    /\ process_location' = "Checking Table Structure"
    /\ \/ /\ calls' = Append(calls, Call("select", name, 0, TRUE))
          /\ pc' = IF count_user_tables(db, name) = 0 THEN absent ELSE present
          /\ exc' = exc
       \/ Fails("select", name)
    /\ UNCHANGED <<descriptors, plan, isfile_calls, run, cur, db, locals, stdout, loads>>

CreateTable(here, name, temp, next) ==
    /\ pc = here
    /\ \/ /\ db' = create_table(db, name, temp)
          /\ calls' = Append(calls, Call("create", name, 0, TRUE))
          /\ pc' = next
          /\ exc' = exc
       \/ /\ Fails("create", name)
          /\ db' = db
    /\ UNCHANGED <<descriptors, plan, isfile_calls, run, cur, process_location, locals, stdout, loads>>

CheckMainTable == CheckTable("check_main", inputdata.table_name, "create_main", "check_tmp")

CreateMainTable == CreateTable("create_main", inputdata.table_name, FALSE, "check_tmp")

CheckTmpTable == CheckTable("check_tmp", tmp_table_name(inputdata), "create_tmp", "open_csv")

CreateTmpTable == CreateTable("create_tmp", tmp_table_name(inputdata), TRUE, "open_csv")

(***************************************************************************)
(* handle_table: load the data                                             *)
(***************************************************************************)
\* open(path_filename, 'rt') may raise OSError, and does when there is no file
OpenCsv ==
    /\ pc = "open_csv"
    /\ num_rows' = 0
    /\ csv_pos' = 0
    /\ \/ /\ path_filename(inputdata) \in DOMAIN fs
          /\ process_location' = "before CSV load"
          /\ data' = EmptyBag
          /\ pc' = "read"
          /\ exc' = exc
       \/ /\ process_location' = "Before Load Data"
          /\ data' = data
          /\ Raise("Exception")
    /\ UNCHANGED <<descriptors, plan, isfile_calls, run, cur, db, row, rowarray, calls, stdout, loads>>

\* (variant: the batch is sent once it is longer than batch_size)
BatchFull_late(d) == BagCardinality(d) > batch_size

\* if len(data) % batch_size == 0
BatchFull(d) == BagCardinality(d) % batch_size = 0

\* (variant: a last batch of a single row is not sent)
FinalPending_many(d) == BagCardinality(d) > 1

\* if data
FinalPending(d) == d # EmptyBag

\* cursor.executemany(sql, d): it inserts the rows, or it raises after
\* inserting none of them or all but the last one appended
Executemany(d, last, next) ==
    LET tmp == tmp_table_name(inputdata)
    IN  \/ /\ ~executemany_fails(inputdata, d)
           /\ db' = executemany(db, inputdata, d)
           /\ calls' = Append(calls, Call("insert", tmp, BagCardinality(d), TRUE))
           /\ pc' = next
           /\ exc' = exc
        \/ /\ \E done \in {EmptyBag, d (-) SetToBag({last})} :
                 /\ ~executemany_fails(inputdata, done)
                 /\ db' = executemany(db, inputdata, done)
           /\ Fails("insert", tmp)

\* one turn of "for row in csv_reader"
ReadRow ==
    /\ pc = "read"
    /\ csv_pos < file.n
    /\ csv_pos' = csv_pos + 1
    /\ row' = DictRow(fieldnames, NextLine)
    /\ IF RowRaises(inputdata, row')
       THEN /\ Raise("Exception")
            /\ UNCHANGED <<rowarray, data, num_rows, process_location, db, calls>>
       ELSE /\ rowarray' = RowArray(inputdata, row')
            /\ num_rows' = num_rows + 1
            /\ process_location' = "before executemany"
            /\ LET d == data (+) SetToBag({rowarray'})
               IN  IF BatchFull(d)
                   THEN /\ Executemany(d, rowarray', "read")
                        /\ data' = IF pc' = "read" THEN EmptyBag ELSE d
                   ELSE /\ data' = d
                        /\ UNCHANGED <<db, calls, pc, exc>>
    /\ UNCHANGED <<descriptors, plan, isfile_calls, run, cur, stdout, loads>>

\* the reader is exhausted: the final executemany and the report
FinalExecutemany ==
    /\ pc = "read"
    /\ csv_pos = file.n
    /\ IF FinalPending(data)
       THEN Executemany(data, rowarray, "commit_load")
       ELSE /\ pc' = "commit_load"
            /\ UNCHANGED <<db, calls, exc>>
    /\ stdout' = IF pc' = "commit_load"
                 THEN Append(stdout, Out("Rows Inserted", inputdata.csv_file, num_rows))
                 ELSE stdout
    /\ UNCHANGED <<descriptors, plan, isfile_calls, run, cur, process_location, locals, loads>>

\* connection.commit() after the load
CommitLoad ==
    /\ pc = "commit_load"
    /\ \/ /\ db' = commit(db)
          /\ calls' = Append(calls, Call("commit", "", 0, TRUE))
          /\ process_location' = "before Merge"
          /\ pc' = "merge"
          /\ exc' = exc
       \/ /\ Fails("commit", "")
          /\ UNCHANGED <<db, process_location>>
    /\ UNCHANGED <<descriptors, plan, isfile_calls, run, cur, locals, stdout, loads>>

(***************************************************************************)
(* handle_table: merge the data from the tmp table into the main table     *)
(***************************************************************************)
Merge ==
    /\ pc = "merge"
    /\ \/ /\ ~merge_fails(db, inputdata)
          /\ db' = merge(db, inputdata)
          /\ calls' = Append(calls, Call("merge", inputdata.table_name,
                                BagCardinality(db.session[tmp_table_name(inputdata)]), TRUE))
          /\ pc' = "commit_merge"
          /\ exc' = exc
       \/ /\ Fails("merge", inputdata.table_name)
          /\ db' = db
    /\ UNCHANGED <<descriptors, plan, isfile_calls, run, cur, process_location, locals, stdout, loads>>

\* connection.commit() after the merge, the report, and the return
CommitMerge ==
    /\ pc = "commit_merge"
    /\ \/ /\ db' = commit(db)
          /\ calls' = Append(calls, Call("commit", "", 0, TRUE))
          /\ stdout' = Append(stdout, Out("Merge Completed", inputdata.csv_file,
                                BagCardinality(db.session[tmp_table_name(inputdata)])))
          /\ loads' = Append(loads,
                        [run     |-> run,
                         table   |-> inputdata.table_name,
                         file    |-> file,
                         staging |-> BagCardinality(db.session[tmp_table_name(inputdata)]),
                         main    |-> db.session[inputdata.table_name]])
          /\ Return
          /\ exc' = exc
       \/ /\ Fails("commit", "")
          /\ UNCHANGED <<db, stdout, loads, cur, locals>>
    /\ UNCHANGED <<descriptors, plan, isfile_calls, run, process_location>>

(***************************************************************************)
(* The except clauses.                                                     *)
(***************************************************************************)
\* handle_table: DatabaseError is printed and replaced by SystemExit, any
\* other Exception is raised again as an Exception; the except clause of
\* handle_compute or handle_block_volume does the same to an Exception and
\* lets SystemExit through
\* (variant: the DatabaseError is raised again as an Exception)
handle_table_reraise(e) == "Exception"

handle_table_except(e) == IF e = "DatabaseError" THEN "SystemExit" ELSE "Exception"

ExceptHandleTable ==
    /\ pc = "except_handle_table"
    /\ stdout' = IF exc = "DatabaseError"
                 THEN Append(stdout, Out("DatabaseError at procedure: handle_table()", process_location, 0))
                 ELSE stdout
    /\ exc' = handle_table_except(exc)
    /\ pc' = "except_main"
    /\ ResetLocals
    /\ UNCHANGED <<descriptors, plan, isfile_calls, run, cur, process_location, db, calls, loads>>

\* main_process: "except oracledb.DatabaseError" and "except Exception"
main_catches(e) == e \in {"DatabaseError", "Exception"}

\* the exception leaves the with block, which closes the connection, and
\* reaches the except clauses of main_process
ExceptMain ==
    /\ pc = "except_main"
    /\ db' = close(db)
    /\ IF main_catches(exc)
       THEN /\ stdout' = Append(stdout,
                    Out(IF exc = "DatabaseError" THEN "Error manipulating database"
                        ELSE "Error appeared", process_location, 0))
            /\ exc' = ""
            /\ pc' = "completed"
       ELSE /\ pc' = "exit"
            /\ UNCHANGED <<stdout, exc>>
    /\ UNCHANGED <<descriptors, plan, isfile_calls, run, cur, process_location, locals, calls, loads>>

\* the with block ends normally
CloseConnection ==
    /\ pc = "close"
    /\ db' = close(db)
    /\ pc' = "completed"
    /\ UNCHANGED <<descriptors, plan, isfile_calls, run, cur, process_location, exc, locals, calls, stdout, loads>>

\* print("\nCompleted at " ...)
Completed ==
    /\ pc = "completed"
    /\ stdout' = Append(stdout, Out("Completed at", "", 0))
    /\ pc' = "exit"
    /\ UNCHANGED <<descriptors, plan, isfile_calls, run, cur, process_location, exc, db, locals, calls, loads>>

\* the program is started again
NextRun ==
    /\ pc = "exit"
    /\ run < Len(plan)
    /\ run' = run + 1
    /\ pc' = "main"
    /\ cur' = 0
    /\ process_location' = ""
    /\ exc' = ""
    /\ calls' = <<>>
    /\ isfile_calls' = <<>>
    /\ stdout' = <<>>
    /\ UNCHANGED <<descriptors, plan, db, locals, loads>>

Next ==
    \/ Connect
    \/ HandleTableStart
    \/ CheckMainTable
    \/ CreateMainTable
    \/ CheckTmpTable
    \/ CreateTmpTable
    \/ OpenCsv
    \/ ReadRow
    \/ FinalExecutemany
    \/ CommitLoad
    \/ Merge
    \/ CommitMerge
    \/ ExceptHandleTable
    \/ ExceptMain
    \/ CloseConnection
    \/ Completed
    \/ NextRun

Spec == Init /\ [][Next]_vars

SpecBatch == InitBatch /\ [][Next]_vars

SpecNoKey == InitNoKey /\ [][Next]_vars

(***************************************************************************)
(* Properties.                                                             *)
(***************************************************************************)
tmp == tmp_table_name(inputdata)

\* handle_table is past the commit of the load
Loaded == pc \in {"merge", "commit_merge"}

\* the stored row of line k of the file's pattern
StoredLine(k) ==
    BindRow(inputdata, RowArray(inputdata, DictRow(fieldnames, Catalogue[cur][file.shape].pat[k])))

\* how many of the first n data rows are line k of the pattern of L lines
TimesRead(k, n, L) == (n \div L) + (IF k <= n % L THEN 1 ELSE 0)

\* the successful bulk inserts into the staging table of the current descriptor
Inserts == SelectSeq(calls, LAMBDA c : c[1] = "insert" /\ c[2] = tmp /\ c[4])

RECURSIVE SumRows(_)
SumRows(s) == IF s = <<>> THEN 0 ELSE s[1][3] + SumRows(Tail(s))

\* C1: once the load of a file with N data rows has been committed, the
\* staging table holds exactly N rows, each line of the file as often as the
\* file has it, the bulk inserts carried N rows in total and num_rows is N,
\* whatever N is relative to the batch size.
C1_AllRowsStaged ==
    Loaded =>
        LET L == Len(Catalogue[cur][file.shape].pat)
        IN  /\ BagCardinality(db.session[tmp]) = file.n
            /\ \A k \in 1..L :
                  TimesRead(k, file.n, L) > 0 =>
                      CopiesIn(StoredLine(k), db.session[tmp]) = TimesRead(k, file.n, L)
            /\ SumRows(Inserts) = file.n
            /\ num_rows = file.n
            /\ db.committed[tmp] = db.session[tmp]

\* a file of one batch and one row has been loaded
C1_Witness ==
    /\ pc = "merge"
    /\ file.n = batch_size + 1
    /\ BagCardinality(db.session[tmp]) = batch_size + 1

\* one less than a batch, exactly one batch, and two batches
C1_WitnessBelow == pc = "merge" /\ file.n = batch_size - 1

C1_WitnessEqual == pc = "merge" /\ file.n = batch_size

C1_WitnessMultiple == pc = "merge" /\ file.n = MaxBatches * batch_size

Ceil(n, b) == (n + b - 1) \div b

\* C10: the batch never holds more than batch_size rows; while the file is
\* read there has been one bulk insert of batch_size rows per batch_size rows
\* read and the batch holds the rest; once the file is exhausted there have
\* been ceil(N / batch_size) bulk inserts, all of batch_size rows except
\* possibly the last, which has the remaining 1..batch_size rows; no bulk
\* insert has an empty batch.
C10_Batches ==
    /\ BagCardinality(data) <= batch_size
    /\ pc = "read" =>
          /\ BagCardinality(data) = csv_pos % batch_size
          /\ Len(Inserts) = csv_pos \div batch_size
          /\ \A i \in 1..Len(Inserts) : Inserts[i][3] = batch_size
    /\ (pc = "commit_load" \/ Loaded) =>
          /\ Len(Inserts) = Ceil(file.n, batch_size)
          /\ \A i \in 1..Len(Inserts) :
                Inserts[i][3] = IF i < Len(Inserts) THEN batch_size
                                ELSE file.n - batch_size * (Len(Inserts) - 1)
    /\ \A i \in 1..Len(calls) :
          (calls[i][1] = "insert" /\ calls[i][4]) => calls[i][3] \in 1..batch_size

\* full batches and a last one of a single row
C10_Witness ==
    /\ pc = "commit_load"
    /\ file.n = MaxBatches * batch_size + 1
    /\ Len(Inserts) = MaxBatches + 1
    /\ Inserts[MaxBatches + 1][3] = 1

\* a file of exactly one batch: no final bulk insert
C10_WitnessNoFinal ==
    /\ pc = "commit_load"
    /\ file.n = batch_size
    /\ Len(Inserts) = 1

FailedInsert(i) ==
    \E k \in 1..Len(calls) :
        /\ calls[k][1] = "insert"
        /\ calls[k][2] = tmp_table_name(DescriptorLists[descriptors][i])
        /\ ~calls[k][4]

\* the calls of the current handle_table after its last statement on the schema
LoadCalls ==
    LET last == CHOOSE k \in 0..Len(calls) :
                    /\ k > 0 => calls[k][1] \in {"select", "create"}
                    /\ \A j \in (k + 1)..Len(calls) : calls[j][1] \notin {"select", "create"}
    IN  SubSeq(calls, last + 1, Len(calls))

\* C9: no commit is issued while the staging table is loaded, so nothing of
\* the file is committed before the single commit that follows the last bulk
\* insert; when a bulk insert raises a database error nothing of the file is
\* committed to staging, then or later, and no merge is executed for the
\* descriptor.
C9_SingleCommit ==
    /\ pc \in {"read", "commit_load"} =>
          /\ db.committed[tmp] = EmptyBag
          /\ \A k \in 1..Len(LoadCalls) : LoadCalls[k][1] = "insert"
    /\ pc = "merge" =>
          /\ Len(LoadCalls) >= 1
          /\ LoadCalls[Len(LoadCalls)][1] = "commit"
          /\ \A k \in 1..(Len(LoadCalls) - 1) : LoadCalls[k][1] = "insert"
    /\ \A i \in 1..Len(Descriptors) :
          FailedInsert(i) =>
              /\ db.committed[tmp_table_name(Descriptors[i])] = EmptyBag
              /\ \A k \in 1..Len(calls) :
                    ~(calls[k][1] = "merge" /\ calls[k][2] = Descriptors[i].table_name)

\* the second bulk insert failed: the first batch is in the session and lost
C9_Witness ==
    /\ pc = "except_handle_table"
    /\ exc = "DatabaseError"
    /\ FailedInsert(cur)
    /\ Len(Inserts) >= 1
    /\ BagCardinality(db.session[tmp]) >= batch_size
    /\ db.committed[tmp] = EmptyBag

\* handle_table is in or past the loop over the rows, with a row tuple built
InLoad == pc \in {"read", "commit_load", "merge", "commit_merge"} /\ rowarray # <<>>

\* C2: a value longer than 4000 characters is placed in the row tuple as its
\* first 4000 characters, and a value of at most 4000 characters unchanged.
C2_TruncatedTo4000 ==
    InLoad =>
        \A i \in 1..Len(inputdata.items) :
            LET column == strip(inputdata.items[i].csv)
            IN  (column \in DOMAIN row /\ row[column] # None) =>
                    LET v == row[column][1]
                    IN  rowarray[i] = IF Len(v) > 4000 THEN SubSeq(v, 1, 4000) ELSE v

MissingColumns ==
    {i \in 1..Len(inputdata.items) : strip(inputdata.items[i].csv) \notin DOMAIN row}

Absent(i) == path_filename(Descriptors[i]) \notin DOMAIN fs

TablesOf(i) == {Descriptors[i].table_name, tmp_table_name(Descriptors[i])}

NoCallsFor(i) == \A k \in 1..Len(calls) : calls[k][2] \notin TablesOf(i)

Skipped(i) == \E k \in 1..Len(stdout) : stdout[k] = Out("skipping", Descriptors[i].csv_file, 0)

C5_SkipStep ==
    (pc = "handle_start" /\ Absent(cur)) =>
        /\ exc' = ""
        /\ db' = db
        /\ calls' = calls
        /\ stdout' = Append(stdout, Out("skipping", Descriptors[cur].csv_file, 0))
        /\ IF cur < Len(Descriptors)
           THEN pc' = "handle_start" /\ cur' = cur + 1
           ELSE pc' = "close"

\* C5: when the source file of a descriptor does not exist, handle_table
\* executes no statement for it (no insert into staging, no merge), the
\* staging table stays empty, no exception is raised, and the program goes
\* on with the next descriptor, or with the end of the with block.
C5_AbsentFileSkipped ==
    /\ [](\A i \in 1..Len(Descriptors) :
            Absent(i) => /\ NoCallsFor(i)
                         /\ db.session[tmp_table_name(Descriptors[i])] = EmptyBag)
    /\ [][C5_SkipStep]_vars

\* compute.csv was absent and skipped, and block_volumes.csv has been merged
C5_Witness ==
    /\ Absent(1)
    /\ Skipped(1)
    /\ \E k \in 1..Len(calls) :
          calls[k] = Call("merge", Descriptors[2].table_name, 1, TRUE)
    /\ \A k \in 1..Len(stdout) : stdout[k][1] \in {"skipping", "Rows Inserted", "Merge Completed"}

CompletedPrinted == stdout # <<>> /\ stdout[Len(stdout)] = Out("Completed at", "", 0)

DatabaseErrorPrinted ==
    \E k \in 1..Len(stdout) : stdout[k][1] = "DatabaseError at procedure: handle_table()"

ErrorCaughtInMain ==
    \E k \in 1..Len(stdout) : stdout[k][1] \in {"Error manipulating database", "Error appeared"}

\* C7, as stated: whatever fails, the run reaches its end and prints the
\* completion message.
C7_AlwaysCompletes == pc = "exit" => CompletedPrinted

\* C7, amended: a database error inside handle_table is printed there with
\* the process location and ends the program (SystemExit) without the
\* completion message; any other failure is caught and printed in
\* main_process, after which the completion message is printed.  A failed
\* statement is always followed by the printed database error.
C7_CompletesUnlessDatabaseError ==
    /\ pc = "exit" =>
          /\ CompletedPrinted <=> ~DatabaseErrorPrinted
          /\ DatabaseErrorPrinted <=> exc = "SystemExit"
          /\ DatabaseErrorPrinted =>
                stdout[Len(stdout)] =
                    Out("DatabaseError at procedure: handle_table()", process_location, 0)
          /\ ErrorCaughtInMain => CompletedPrinted
    /\ pc \in {"except_main", "completed", "exit"} =>
          ((\E k \in 1..Len(calls) : ~calls[k][4]) => DatabaseErrorPrinted)
    /\ pc = "completed" => ~DatabaseErrorPrinted

\* the merge raised a database error and the program has ended
C7_Witness ==
    /\ pc = "exit"
    /\ DatabaseErrorPrinted
    /\ ~CompletedPrinted
    /\ \E k \in 1..Len(calls) : calls[k][1] = "merge" /\ ~calls[k][4]

\* a row with a None value raised TypeError: caught in main_process
C7_WitnessCaught ==
    /\ pc = "exit"
    /\ ErrorCaughtInMain
    /\ CompletedPrinted
    /\ \E k \in 1..Len(calls) : calls[k][1] = "create"

\* The order of the statements of one handle_table, as a state after each:
\*   0 none yet, 1 main table looked up, 2 main table created,
\*   3 staging table looked up, 4 staging table created, 5 rows inserted,
\*   6 load committed, 7 merged, 8 merge committed; -1: out of order
AfterCall(st, c, i) ==
    LET main == Descriptors[i].table_name
        stg  == tmp_table_name(Descriptors[i])
    IN  CASE st = 0 /\ c[1] = "select" /\ c[2] = main -> 1
          [] st = 1 /\ c[1] = "create" /\ c[2] = main -> 2
          [] st \in {1, 2} /\ c[1] = "select" /\ c[2] = stg -> 3
          [] st = 3 /\ c[1] = "create" /\ c[2] = stg -> 4
          [] st \in {3, 4, 5} /\ c[1] = "insert" /\ c[2] = stg -> 5
          [] st \in {3, 4, 5} /\ c[1] = "commit" -> 6
          [] st = 6 /\ c[1] = "merge" /\ c[2] = main -> 7
          [] st = 7 /\ c[1] = "commit" -> 8
          [] OTHER -> -1

\* the calls from the k-th on are those of descriptor i from state st on,
\* followed by those of the later descriptors; a descriptor is left out
\* exactly when it is in skip; a failed statement is the last one
RECURSIVE Ordered(_, _, _, _)
Ordered(k, st, i, skip) ==
    IF k > Len(calls) THEN TRUE
    ELSE IF i > Len(Descriptors) THEN FALSE
    ELSE IF st = 8 \/ (st = 0 /\ i \in skip) THEN Ordered(k, 0, i + 1, skip)
    ELSE LET n == AfterCall(st, calls[k], i)
         IN  /\ n # -1
             /\ IF calls[k][4] THEN Ordered(k + 1, n, i, skip) ELSE k = Len(calls)

TablesEnsured ==
    \A k \in 1..Len(calls) :
        (calls[k][1] \in {"insert", "merge"} /\ calls[k][4]) =>
            \E i \in 1..Len(Descriptors) :
                calls[k][2] \in TablesOf(i) /\ TablesOf(i) \subseteq db.user_tables

\* C8, as stated: the statements of a descriptor run in the order schema,
\* load, merge, each at most once, and the schema is looked up before the
\* absence of the source file is detected.
C8_SchemaBeforeFileCheck ==
    /\ Ordered(1, 0, 1, {})
    /\ TablesEnsured
    /\ \A i \in 1..Len(Descriptors) :
          Skipped(i) => \E k \in 1..Len(calls) :
                            calls[k] = Call("select", Descriptors[i].table_name, 0, TRUE)

\* C8, amended: handle_table checks first that the source file exists and,
\* when it does not, returns without any statement; otherwise the statements
\* run in the order schema (look up and create the main table, then the
\* staging table), load (bulk inserts, one commit), merge (merge, commit),
\* each at most once; no insert or merge is executed before both tables
\* exist, and the merge only after the commit of the load.
C8_FileCheckThenLinear ==
    /\ Ordered(1, 0, 1, {i \in 1..Len(Descriptors) : Absent(i)})
    /\ TablesEnsured
    /\ \A i \in 1..Len(Descriptors) : Skipped(i) => Absent(i) /\ NoCallsFor(i)

\* compute.csv is absent and skipped with no statement; block_volumes.csv
\* went through schema, load and merge
C8_Witness ==
    /\ pc = "close"
    /\ Skipped(1)
    /\ Len(calls) = 8
    /\ calls[1] = Call("select", Descriptors[2].table_name, 0, TRUE)
    /\ calls[5][1] = "insert"
    /\ calls[7][1] = "merge"

\* completed loads a and b of one table with no completed load of it between
NextLoad(a, b) ==
    /\ a < b
    /\ loads[a].table = loads[b].table
    /\ \A c \in (a + 1)..(b - 1) : loads[c].table # loads[a].table

Reloads ==
    {p \in (1..Len(loads)) \X (1..Len(loads)) :
        NextLoad(p[1], p[2]) /\ loads[p[1]].file = loads[p[2]].file}

\* C3, as stated: loading the same file again leaves the row count of the
\* main table unchanged and doubles the row count of the staging table.
C3_StagingDoubles ==
    \A p \in Reloads :
        /\ BagCardinality(loads[p[2]].main) = BagCardinality(loads[p[1]].main)
        /\ loads[p[2]].staging = 2 * loads[p[1]].staging

\* C3, amended: loading the same file again leaves the row count of the main
\* table unchanged, and the staging table has as many rows after the second
\* load as after the first: its rows belong to the session, so every
\* invocation finds it empty.
C3_StagingPerSession ==
    /\ \A p \in Reloads :
          /\ BagCardinality(loads[p[2]].main) = BagCardinality(loads[p[1]].main)
          /\ loads[p[2]].staging = loads[p[1]].staging
          /\ loads[p[2]].staging = loads[p[2]].file.n
    /\ pc \in {"main", "handle_start"} =>
          \A i \in 1..Len(Descriptors) :
              cur <= i => db.session[tmp_table_name(Descriptors[i])] = EmptyBag

\* the two-row file was loaded and merged by two invocations
C3_Witness ==
    \E p \in Reloads :
        /\ loads[p[1]].run < loads[p[2]].run
        /\ loads[p[1]].file = File("AC", 2)
        /\ loads[p[2]].staging = 2
        /\ BagCardinality(loads[p[2]].main) = 2

KeysUnique(rows, pk) ==
    \A r \in BagToSet(rows) :
        /\ CopiesIn(r, rows) = 1
        /\ \A q \in BagToSet(rows) : q[pk] = r[pk] => q = r

\* C4: when the merge has been executed, every row of the file is in the
\* main table: exactly one row has its key, and that row has the file's
\* value in every non-key column; and in every state no two rows of a main
\* table have the same key.
C4_MergeUpdates ==
    /\ \A i \in 1..Len(Descriptors) :
          LET pk == primary_key(DescriptorLists[descriptors][i])
          IN  /\ KeysUnique(db.session[Descriptors[i].table_name], pk)
              /\ KeysUnique(db.committed[Descriptors[i].table_name], pk)
    /\ pc = "commit_merge" =>
          \A k \in 1..Min(file.n, Len(Catalogue[cur][file.shape].pat)) :
              LET b  == StoredLine(k)
                  pk == primary_key(inputdata)
                  as == {a \in BagToSet(db.session[inputdata.table_name]) : a[pk] = b[pk]}
              IN  /\ Cardinality(as) = 1
                  /\ \A a \in as : \A i \in merge_sql_columns(inputdata) : a[i] = b[i]

\* the row ocid1 was merged by one invocation and merged again, with other
\* values in its non-key columns, by a later one
C4_Witness ==
    \E p \in (1..Len(loads)) \X (1..Len(loads)) :
        /\ NextLoad(p[1], p[2])
        /\ loads[p[1]].file = File("A", 1)
        /\ loads[p[2]].file = File("B", 1)
        /\ BagCardinality(loads[p[2]].main) = 1
        /\ loads[p[2]].main # loads[p[1]].main

\* descriptor i has no item marked as the primary key
KeyLess(i) ==
    \A k \in 1..Len(DescriptorLists[descriptors][i].items) :
        DescriptorLists[descriptors][i].items[k].pk # "y"

\* the error of the descriptor without a key has been printed by main_process
NoKeyErrorPrinted ==
    \E k \in 1..Len(stdout) : stdout[k] = Out("Error appeared", "Start", 0)

\* C11: for a descriptor with no item marked as the primary key,
\* handle_table raises an error at its start, before any I/O: no
\* file-existence check is made for its file and no skipping message is
\* printed, no statement (catalog query, create, insert, merge) names its
\* tables, its tables are never created and its staging table stays empty;
\* the error ends the run of the descriptors (a later one is not handled)
\* and is printed by main_process.
C11_NoKeyAbortsBeforeIO ==
    /\ \A i \in 1..Len(Descriptors) :
          KeyLess(i) =>
              /\ \A k \in 1..Len(isfile_calls) : isfile_calls[k] # path_filename(Descriptors[i])
              /\ ~Skipped(i)
              /\ NoCallsFor(i)
              /\ TablesOf(i) \cap db.user_tables = {}
              /\ db.session[tmp_table_name(Descriptors[i])] = EmptyBag
              /\ cur <= i
    /\ (cur >= 1 /\ KeyLess(cur)) =>
          /\ pc \in {"handle_start", "except_handle_table", "except_main", "completed", "exit"}
          /\ pc = "except_handle_table" => exc = "Exception" /\ process_location = "Start"
          /\ pc = "except_main" => exc = "Exception"
          /\ pc \in {"completed", "exit"} => NoKeyErrorPrinted /\ exc = ""

\* compute.csv has been loaded and merged, block_volumes.csv exists, and the
\* descriptor of the block volumes, which has no key, was aborted with no
\* file check and no statement
C11_Witness ==
    /\ pc = "exit"
    /\ cur = 2
    /\ KeyLess(2)
    /\ path_filename(Descriptors[2]) \in DOMAIN fs
    /\ isfile_calls = <<path_filename(Descriptors[1])>>
    /\ \E k \in 1..Len(calls) : calls[k] = Call("merge", Descriptors[1].table_name, 1, TRUE)
    /\ NoCallsFor(2)
    /\ NoKeyErrorPrinted
    /\ CompletedPrinted

\* the descriptor of compute.csv has no key: the run is aborted at once and
\* block_volumes.csv, which exists, is not looked at
C11_WitnessFirst ==
    /\ pc = "exit"
    /\ KeyLess(1)
    /\ DOMAIN fs = {path_filename(Descriptors[1]), path_filename(Descriptors[2])}
    /\ isfile_calls = <<>>
    /\ calls = <<>>
    /\ NoKeyErrorPrinted
====
